---- MODULE Spec2Model ----
(***************************************************************************)
(* disksense: the bounded-depth, progress-reporting directory scanner of   *)
(* src-tauri/src/lib.rs (scan_directory, fast_scan, comprehensive_scan,    *)
(* the size and item-count estimators and emit_progress).                  *)
(*                                                                         *)
(* The filesystem a scan runs on is an input: a tree of entries drawn from *)
(* a small catalogue.  The tree a scan returns is a function of that input *)
(* (fast_scan, comprehensive_scan below); the shared processed_items       *)
(* counter and the scan-progress events depend on how the parallel         *)
(* subdirectory workers interleave, and are modelled step by step.         *)
(* The non-Windows build of the scanner is modelled (SKIP_DIRS is          *)
(* cfg(windows) only).                                                     *)
(*                                                                         *)
(* The drive probe (get_drive_info: get_unix_drives, get_windows_drives)   *)
(* is a second operation with a specification of its own, ProbeSpec: what  *)
(* df prints and what the drive letters hold are its inputs.               *)
(***************************************************************************)
EXTENDS Integers, Sequences, FiniteSets, TLC

\* ------------------------------------------------------------------ bounds
\* The largest depth a caller requests (depth ranges over 0..MaxDepth).
MaxDepth == 3
\* The number of sibling subdirectories v1, v2, ... beside /par/u.
ParDirs == 1
\* The most lines df prints after its header.
MaxLines == 2

\* ------------------------------------------------------- program constants
LargeThreshold == 1000
SampleLimit == 100
CountCap == 10000
LargeEstimate == 5000
FileEmitEvery == 100
DirEmitEvery == 20
AlwaysEmitBelow == 100

\* -------------------------------------------------------------- filesystem
\* An entry of the filesystem.  name is the leaf name as a sequence of
\* characters; kind is "file", "dir" or "other" (a socket, a fifo: neither
\* is_file() nor is_dir()); len is metadata().len(); readable tells whether
\* read_dir succeeds on a directory.
File(name, len) ==
  [name |-> name, kind |-> "file", len |-> len, readable |-> TRUE, entries |-> <<>>]

Other(name) ==
  [name |-> name, kind |-> "other", len |-> 0, readable |-> TRUE, entries |-> <<>>]

Dir(name, len, entries) ==
  [name |-> name, kind |-> "dir", len |-> len, readable |-> TRUE, entries |-> entries]

LockedDir(name, len) ==
  [name |-> name, kind |-> "dir", len |-> len, readable |-> FALSE, entries |-> <<>>]

\* n files f1 .. fn of len bytes each.
ManyFiles(n, len) == [i \in 1..n |-> File(<<"f", ToString(i)>>, len)]

\* /r: files, a hidden file, a special file, nested and hidden directories.
MixedTree ==
  Dir(<<"r">>, 4096, <<
    File(<<"a">>, 100),
    File(<<"b">>, 300),
    File(<<".", "h", "i", "d">>, 10),
    Other(<<"s", "o", "c", "k">>),
    Dir(<<"s", "u", "b">>, 0, <<
      File(<<"x">>, 1000),
      File(<<".", "h">>, 10),
      Dir(<<"d", "e", "e", "p">>, 0, <<
        File(<<"c">>, 42),
        Dir(<<"d", "p", "r">>, 0, <<
          File(<<"z">>, 7),
          Dir(<<"w">>, 0, << File(<<"q">>, 1) >>) >>) >>) >>),
    Dir(<<".", "g", "i", "t">>, 4096, << File(<<"o", "b", "j">>, 5) >>) >>)

\* /par: a file and the sibling subdirectories u, v1, v2, ... (scanned by
\* parallel workers in fast mode); u holds a subdirectory of its own.
ParTree ==
  Dir(<<"p", "a", "r">>, 0,
    << File(<<"f">>, 50),
       Dir(<<"u">>, 0, << File(<<"m">>, 20), Dir(<<"k">>, 0, << File(<<"n">>, 400) >>) >>) >>
    \o [i \in 1..ParDirs |-> Dir(<<"v", ToString(i)>>, 0, << File(<<"o">>, 30 * i) >>)])

\* /p: one file and /p/bulk, a large directory of LargeThreshold files.
BulkTree ==
  Dir(<<"p">>, 0, <<
    File(<<"a">>, 7),
    Dir(<<"b", "u", "l", "k">>, 0, ManyFiles(LargeThreshold, 2)) >>)

\* /big: the scan root is itself a large directory.
BigRootTree == Dir(<<"b", "i", "g">>, 0, ManyFiles(LargeThreshold, 1))

\* a regular file as the scan root
FileRoot == File(<<"f", ".", "t", "x", "t">>, 42)

\* /.config: the scan root's own name begins with '.'
HiddenRootTree ==
  Dir(<<".", "c", "f", "g">>, 0, <<
    File(<<"k">>, 3),
    Dir(<<"d">>, 0, << File(<<"e">>, 9), File(<<"g">>, 11) >>) >>)

\* an empty directory, and a directory that exists but cannot be listed
EmptyTree == Dir(<<"e", "m", "p", "t", "y">>, 0, <<>>)

LockedTree == LockedDir(<<"l", "o", "c", "k">>, 0)

\* The roots a scan is run on.  status: "ok", "missing" (the path does not
\* exist) or "nocanon" (it exists but canonicalize fails).
Root(status, entry) == [status |-> status, entry |-> entry]

Catalogue ==
  << Root("ok", MixedTree), Root("ok", ParTree), Root("ok", BulkTree),
     Root("ok", BigRootTree), Root("ok", FileRoot), Root("ok", HiddenRootTree),
     Root("ok", EmptyTree), Root("ok", LockedTree),
     Root("missing", EmptyTree), Root("nocanon", EmptyTree) >>

\* ---------------------------------------------------------------- helpers
Min(a, b) == IF a < b THEN a ELSE b

Indices(s) == [i \in 1..Len(s) |-> i]

\* iter().map(..).sum() over a sequence of numbers
RECURSIVE SumSeq(_)
SumSeq(s) ==
  IF Len(s) = 0 THEN 0
  ELSE IF Len(s) = 1 THEN s[1]
  ELSE LET h == Len(s) \div 2
       IN SumSeq(SubSeq(s, 1, h)) + SumSeq(SubSeq(s, h + 1, Len(s)))

\* Option<Vec<DiskItem>>
None == [some |-> FALSE, vec |-> <<>>]

Some(v) == [some |-> TRUE, vec |-> v]

\* the entry at path p (a sequence of child indices) below entry e
RECURSIVE EntryAt(_, _)
EntryAt(e, p) == IF p = <<>> THEN e ELSE EntryAt(e.entries[Head(p)], Tail(p))

\* std::fs::read_dir(path): the entries, or an error
read_dir_ok(e) == e.kind = "dir" /\ e.readable

\* name.starts_with(".")
starts_with_dot(name) == Len(name) > 0 /\ name[1] = "."

\* the hidden filter applied to files only, a slip the code does not make
skip_hidden_files_only(options, e) ==
  options.skip_hidden /\ e.kind = "file" /\ starts_with_dot(e.name)

\* options.skip_hidden && name.starts_with(".")
skip_entry(options, e) == options.skip_hidden /\ starts_with_dot(e.name)

\* ------------------------------------------------------------- estimators
\* is_large_directory: counts up to LargeThreshold immediate entries
is_large_directory(e) ==
  read_dir_ok(e) /\ Min(Len(e.entries), LargeThreshold) >= LargeThreshold

\* estimate_dir_size: the directory's own metadata length when non-zero,
\* else the first SampleLimit entries' lengths extrapolated to the entry
\* count (capped at CountCap).  The f64 product is truncated by `as u64`;
\* the catalogue keeps the quotient exact.
estimate_dir_size(e) ==
  IF e.len > 0 THEN e.len
  ELSE LET n == IF read_dir_ok(e) THEN Len(e.entries) ELSE 0
           count == Min(n, SampleLimit)
           size == SumSeq([i \in 1..count |-> e.entries[i].len])
           sample_count == count
           total_count == IF read_dir_ok(e) THEN Min(n, CountCap) ELSE count
       IN IF sample_count > 0 /\ total_count > sample_count
          THEN (size * total_count) \div sample_count
          ELSE size

\* fs_extra::dir::get_size: the byte total of every file below the path
RECURSIVE get_size(_)
get_size(e) ==
  IF e.kind = "dir"
  THEN SumSeq([i \in 1..Len(e.entries) |-> get_size(e.entries[i])])
  ELSE e.len

\* estimate_item_count: the total the progress bar is scaled by
RECURSIVE estimate_item_count(_, _)
estimate_item_count(e, max_depth) ==
  IF e.kind # "dir" THEN 1
  ELSE IF is_large_directory(e) THEN LargeEstimate
  ELSE IF ~read_dir_ok(e) THEN 1
  ELSE 1 + SumSeq([i \in 1..Len(e.entries) |->
         LET c == e.entries[i]
         IN 1 + (IF max_depth > 0 /\ c.kind = "dir"
                 THEN estimate_item_count(c, IF max_depth > 2 THEN 0 ELSE max_depth - 1)
                 ELSE 0)])

\* ------------------------------------------------------------ result tree
\* DiskItem
DiskItem(name, path, size, is_dir, children) ==
  [name |-> name, path |-> path, size |-> size, is_dir |-> is_dir, children |-> children]

\* children.iter().map(|child| child.size).sum()
sum_sizes(children) == SumSeq([i \in 1..Len(children) |-> children[i].size])

\* a.size.cmp(&b.size): ascending, the comparison the code does not make
sort_ascending(children) == SortSeq(children, LAMBDA a, b: a.size < b.size)

\* children.sort_by(|a, b| b.size.cmp(&a.size)): stable, largest first
sort_children(children) == SortSeq(children, LAMBDA a, b: a.size > b.size)

\* the recursion budget left unchanged, a slip the code does not make
same_depth(max_depth) == max_depth

\* max_depth - 1, the budget handed to the recursive call
child_depth(max_depth) == max_depth - 1

\* the large-directory short-circuit never taken
never_skip_full_scan(options, e, max_depth) == FALSE

\* skip_full_scan && max_depth > 1
takes_estimate(options, e, max_depth) ==
  options.fast_mode /\ is_large_directory(e) /\ max_depth > 1

\* the root item both scans start from
empty_root(e, p) == DiskItem(e.name, p, 0, TRUE, Some(<<>>))

\* a directory added as a leaf with an estimated size
estimated_leaf(e, p) == DiskItem(e.name, p, estimate_dir_size(e), TRUE, Some(<<>>))

\* the files of a directory that fast_scan turns into items, in order
fast_file_indices(e, options) ==
  SelectSeq(Indices(e.entries),
            LAMBDA i: ~skip_entry(options, e.entries[i]) /\ e.entries[i].kind = "file")

\* the subdirectories of a directory that fast_scan turns into items
fast_dir_indices(e, options) ==
  SelectSeq(Indices(e.entries),
            LAMBDA i: e.entries[i].kind = "dir" /\ ~skip_entry(options, e.entries[i]))

RECURSIVE fast_scan(_, _, _, _)
fast_scan(e, p, max_depth, options) ==
  IF ~read_dir_ok(e) THEN empty_root(e, p)
  ELSE
    LET fi == fast_file_indices(e, options)
        di == fast_dir_indices(e, options)
        files == [k \in 1..Len(fi) |->
                   DiskItem(e.entries[fi[k]].name, Append(p, fi[k]),
                            e.entries[fi[k]].len, FALSE, None)]
        dir_items == [k \in 1..Len(di) |->
                   LET c == e.entries[di[k]]
                       q == Append(p, di[k])
                   IN IF max_depth > 0
                      THEN IF takes_estimate(options, c, max_depth)
                           THEN estimated_leaf(c, q)
                           ELSE fast_scan(c, q, child_depth(max_depth), options)
                      ELSE estimated_leaf(c, q)]
        children == sort_children(files \o dir_items)
    IN DiskItem(e.name, p, sum_sizes(children), TRUE, Some(children))

\* the entries comprehensive_scan's walker yields and does not skip
comp_indices(e, options) ==
  IF read_dir_ok(e)
  THEN SelectSeq(Indices(e.entries), LAMBDA i: ~skip_entry(options, e.entries[i]))
  ELSE <<>>

\* a directory's size taken from the sampling estimator, not from get_size
estimated_entry_size(e) == IF e.kind = "dir" THEN estimate_dir_size(e) ELSE e.len

\* the size an entry gets before any recursion: get_size for a directory,
\* metadata().len() for anything else
entry_size(e) == IF e.kind = "dir" THEN get_size(e) ELSE e.len

RECURSIVE comprehensive_scan(_, _, _, _)
comprehensive_scan(e, p, max_depth, options) ==
  LET ci == comp_indices(e, options)
      children == sort_children([k \in 1..Len(ci) |->
        LET c == e.entries[ci[k]]
            q == Append(p, ci[k])
            is_dir == c.kind = "dir"
        IN IF is_dir /\ max_depth > 0
           THEN comprehensive_scan(c, q, child_depth(max_depth), options)
           ELSE DiskItem(c.name, q, entry_size(c), is_dir,
                         IF is_dir THEN Some(<<>>) ELSE None)])
  IN IF children # <<>>
     THEN DiskItem(e.name, p, sum_sizes(children), TRUE, Some(children))
     ELSE empty_root(e, p)

\* ------------------------------------------------------------ drive probe
\* get_drive_info: get_unix_drives or get_windows_drives, whichever the
\* build was compiled for.  What the operating system answers is an input:
\* the standard output of `df -k`, the metadata of the mount points, and, on
\* Windows, what each drive letter holds.
\*
\* Text is a sequence of characters, as the entry names are.  A number a
\* tool prints is the text of its digits.
Whitespace == {" ", "\t"}

Digits == <<"0", "1", "2", "3", "4", "5", "6", "7", "8", "9">>

\* the fields of a line joined by single blanks: how df lays a line out
RECURSIVE Line(_)
Line(fields) ==
  IF fields = <<>> THEN <<>>
  ELSE IF Len(fields) = 1 THEN fields[1]
  ELSE fields[1] \o <<" ">> \o Line(Tail(fields))

\* line.split_whitespace(): the maximal runs of characters that are not
\* white space, in order; cur is the run being read, acc the runs read
RECURSIVE split_from(_, _, _)
split_from(s, cur, acc) ==
  IF s = <<>> THEN (IF cur = <<>> THEN acc ELSE Append(acc, cur))
  ELSE IF Head(s) \in Whitespace
       THEN split_from(Tail(s), <<>>, IF cur = <<>> THEN acc ELSE Append(acc, cur))
       ELSE split_from(Tail(s), Append(cur, Head(s)), acc)

split_whitespace(line) == split_from(line, <<>>, <<>>)

digit_value(c) == (CHOOSE d \in 1..Len(Digits) : Digits[d] = c) - 1

is_digit(c) == \E d \in 1..Len(Digits) : Digits[d] = c

RECURSIVE digits_value(_)
digits_value(s) ==
  IF s = <<>> THEN 0
  ELSE digits_value(SubSeq(s, 1, Len(s) - 1)) * 10 + digit_value(s[Len(s)])

\* text.parse::<u64>(): an optional "+", then one decimal digit or more;
\* anything else is an error.  (The texts of the model stay far below
\* u64::MAX, where the real parse reports an overflow.)
parse_u64(text) ==
  LET s == IF text # <<>> /\ Head(text) = "+" THEN Tail(text) ELSE text
  IN IF s # <<>> /\ \A k \in 1..Len(s) : is_digit(s[k])
     THEN [ok |-> TRUE, value |-> digits_value(s)]
     ELSE [ok |-> FALSE, value |-> 0]

\* .unwrap_or(0)
unwrap_or_zero(parsed) == IF parsed.ok THEN parsed.value ELSE 0

\* df -k counts in blocks of 1024 bytes
KiB == 1024

\* parts[k].parse::<u64>().unwrap_or(0) * 1024
kilobytes_field(text) == unwrap_or_zero(parse_u64(text)) * KiB

\* the lines df may print after its header
DfHeader ==
  Line(<< <<"F", "i", "l", "e", "s", "y", "s", "t", "e", "m">>,
          <<"1", "K", "-", "b", "l", "o", "c", "k", "s">>,
          <<"U", "s", "e", "d">>,
          <<"A", "v", "a", "i", "l", "a", "b", "l", "e">>,
          <<"U", "s", "e", "%">>,
          <<"M", "o", "u", "n", "t", "e", "d">>, <<"o", "n">> >>)

\* /dev/sda1 1048576 524288 524288 50% /
DfRootLine ==
  Line(<< <<"/", "d", "e", "v", "/", "s", "d", "a", "1">>,
          <<"1", "0", "4", "8", "5", "7", "6">>,
          <<"5", "2", "4", "2", "8", "8">>,
          <<"5", "2", "4", "2", "8", "8">>,
          <<"5", "0", "%">>, <<"/">> >>)

\* tmpfs      1024  0   1024   0% /run   (columns padded with blanks)
DfTmpfsLine ==
  <<"t", "m", "p", "f", "s", " ", " ", "1", "0", "2", "4", " ", " ", "0", " ",
    " ", "1", "0", "2", "4", " ", " ", "0", "%", " ", "/", "r", "u", "n">>

\* a device name so long that df breaks the line after it
DfBrokenLine ==
  Line(<< <<"/", "d", "e", "v", "/", "m", "a", "p", "p", "e", "r", "/", "v", "g">> >>)

\* a pseudo filesystem without figures: none - - - - /proc
DfNoFiguresLine ==
  Line(<< <<"n", "o", "n", "e">>, <<"-">>, <<"-">>, <<"-">>, <<"-">>,
          <<"/", "p", "r", "o", "c">> >>)

\* a mount point the caller may not stat: /dev/sdb1 2048 1024 1024 50% /gone
DfGoneLine ==
  Line(<< <<"/", "d", "e", "v", "/", "s", "d", "b", "1">>,
          <<"2", "0", "4", "8">>, <<"1", "0", "2", "4">>, <<"1", "0", "2", "4">>,
          <<"5", "0", "%">>, <<"/", "g", "o", "n", "e">> >>)

DfLines == {DfRootLine, DfTmpfsLine, DfBrokenLine, DfNoFiguresLine, DfGoneLine}

\* fs::metadata(mount_point).map(|m| m.len()): the length the metadata of the
\* mount point's directory reports, or an error
metadata_len(mount_point) ==
  IF mount_point = <<"/">> THEN [ok |-> TRUE, value |-> 4096]
  ELSE IF mount_point = <<"/", "r", "u", "n">> THEN [ok |-> TRUE, value |-> 40]
  ELSE IF mount_point = <<"/", "p", "r", "o", "c">> THEN [ok |-> TRUE, value |-> 0]
  ELSE [ok |-> FALSE, value |-> 0]

DriveInfo(name, mount_point, total_space, available_space, used_space) ==
  [name |-> name, mount_point |-> mount_point, total_space |-> total_space,
   available_space |-> available_space, used_space |-> used_space]

\* the DriveInfo get_unix_drives pushes for a line of six fields or more
\* whose mount point has metadata
unix_drive(parts) ==
  DriveInfo(parts[1], parts[6], metadata_len(parts[6]).value,
            kilobytes_field(parts[4]), kilobytes_field(parts[3]))

\* the drive letters 'A'..='Z'
DriveLetters ==
  <<"A", "B", "C", "D", "E", "F", "G", "H", "I", "J", "K", "L", "M",
    "N", "O", "P", "Q", "R", "S", "T", "U", "V", "W", "X", "Y", "Z">>

\* what a drive letter holds: whether the path exists, whether its metadata
\* can be read and says it is a file, and what GetDiskFreeSpaceExW answers
\* (its return value, and the bytes available to the caller, the total bytes
\* and the free bytes; the bytes available never exceed the total)
Volume(exists, metadata_ok, is_file, api_result, available_bytes, total_bytes, free_bytes) ==
  [exists |-> exists, metadata_ok |-> metadata_ok, is_file |-> is_file,
   api_result |-> api_result, available_bytes |-> available_bytes,
   total_bytes |-> total_bytes, free_bytes |-> free_bytes]

NoVolume == Volume(FALSE, FALSE, FALSE, 0, 0, 0, 0)

VolumeStates ==
  { NoVolume,
    Volume(TRUE, FALSE, FALSE, 0, 0, 0, 0),
    Volume(TRUE, TRUE, TRUE, 0, 0, 0, 0),
    Volume(TRUE, TRUE, FALSE, 0, 0, 0, 0),
    Volume(TRUE, TRUE, FALSE, 1, 0, 0, 0),
    Volume(TRUE, TRUE, FALSE, 1, 400, 1000, 500),
    Volume(TRUE, TRUE, FALSE, 1, 1000, 1000, 1000) }

\* a.saturating_sub(b)
saturating_sub(a, b) == IF a >= b THEN a - b ELSE 0

\* whether get_windows_drives pushes a DriveInfo for a volume
windows_pushes(v) ==
  v.exists /\ v.metadata_ok /\ ~v.is_file /\ v.api_result # 0 /\ v.total_bytes > 0

\* the DriveInfo get_windows_drives pushes for the letter at index k
windows_drive(k, v) ==
  DriveInfo(<<"D", "r", "i", "v", "e", " ", DriveLetters[k]>>,
            <<DriveLetters[k], ":", "\\">>,
            v.total_bytes, v.available_bytes,
            saturating_sub(v.total_bytes, v.available_bytes))

\* ------------------------------------------------------------- scan state
VARIABLES
  root_id,          \* the scanned root: an index into Catalogue
  depth,            \* max_depth, the depth the caller requests
  options,          \* ScanOptions: fast_mode, skip_hidden
  phase,            \* "idle", "walking", "done" or "failed"
  processed_items,  \* the shared AtomicUsize
  total_items,      \* estimate_item_count's result
  task,             \* per directory path: where the worker scanning it stands
  first_event,      \* the first scan-progress event published, if any
  recent,           \* the last two scan-progress events published
  result,           \* what scan_directory returned
  target_os,        \* the platform the build was compiled for
  df,               \* whether df could be run, and the lines it printed
  volumes,          \* per drive letter index: what the letter holds
  probe_pc,         \* where get_drive_info stands
  probe_i,          \* the line or the drive letter its loop is at
  drives,           \* the DriveInfo pushed so far
  probe_result      \* what get_drive_info returned

\* the state of the drive probe
probe_vars == << target_os, df, volumes, probe_pc, probe_i, drives, probe_result >>

vars == << root_id, depth, options, phase, processed_items, total_items,
           task, first_event, recent, result, probe_vars >>

\* the entry at path p of the scanned root
E(p) == EntryAt(Catalogue[root_id].entry, p)

\* the max_depth argument of the scan of the directory at path p
RECURSIVE DepthAt(_)
DepthAt(p) == IF p = <<>> THEN depth ELSE child_depth(DepthAt(SubSeq(p, 1, Len(p) - 1)))

Parent(p) == SubSeq(p, 1, Len(p) - 1)

Last(p) == p[Len(p)]

\* the paths of the directories below (and including) the entry e at path p
RECURSIVE DirPaths(_, _)
DirPaths(e, p) ==
  {p} \cup UNION { DirPaths(e.entries[i], Append(p, i)) :
                   i \in { j \in 1..Len(e.entries) : e.entries[j].kind = "dir" } }

Task(pc, i, cur) == [pc |-> pc, i |-> i, cur |-> cur]

Idle == Task("idle", 0, 0)

Done == Task("done", 0, 0)

\* ------------------------------------------------------ progress reporter
\* emit_progress: percent is processed / total * 100 (kept as a fraction),
\* 0 when total is 0
emit_progress(path, processed, total) ==
  [current_path |-> path, processed_items |-> processed, total_items |-> total,
   percent |-> IF total > 0 THEN [num |-> processed * 100, den |-> total]
               ELSE [num |-> 0, den |-> 1]]

\* app.emit("scan-progress", &progress)
Publish(ev) ==
  /\ first_event' = IF first_event = <<>> THEN <<ev>> ELSE first_event
  /\ recent' = IF Len(recent) < 2 THEN Append(recent, ev) ELSE <<recent[2], ev>>

PublishIf(cond, ev) ==
  IF cond THEN Publish(ev) ELSE UNCHANGED << first_event, recent >>

\* current % 100 == 0 || current < 100
emits_for_file(current) == current % FileEmitEvery = 0 \/ current < AlwaysEmitBelow

\* current % 20 == 0 || current < 100
emits_for_dir(current) == current % DirEmitEvery = 0 \/ current < AlwaysEmitBelow

\* current % 20 == 0 || current < 100, for every entry of a comprehensive scan
emits_for_entry(current) == current % DirEmitEvery = 0 \/ current < AlwaysEmitBelow

\* the final report carries the counter, not the total: a slip the code
\* does not make
final_report_counter(counter, total) == counter

\* the processed count of the final report: total_items
final_report(counter, total) == total

\* ------------------------------------------------------------ scan_directory
\* no scan has been asked for
ScanIdle ==
  /\ phase = "idle"
  /\ processed_items = 0
  /\ total_items = 0
  /\ task = [p \in DirPaths(Catalogue[root_id].entry, <<>>) |-> Idle]
  /\ first_event = <<>>
  /\ recent = <<>>
  /\ result = [kind |-> "Pending"]

\* get_drive_info is not called
ProbeOff ==
  /\ target_os = "unix"
  /\ df = [ok |-> FALSE, lines |-> <<>>]
  /\ volumes = [k \in 1..Len(DriveLetters) |-> NoVolume]
  /\ probe_pc = "off"
  /\ probe_i = 0
  /\ drives = <<>>
  /\ probe_result = [kind |-> "Pending"]

Init ==
  /\ root_id \in 1..Len(Catalogue)
  /\ depth \in 0..MaxDepth
  /\ options \in [fast_mode : BOOLEAN, skip_hidden : BOOLEAN]
  /\ ScanIdle
  /\ ProbeOff

\* the path does not exist, or canonicalize fails: Err, nothing published
ScanReject ==
  /\ phase = "idle"
  /\ Catalogue[root_id].status # "ok"
  /\ phase' = "failed"
  /\ result' = [kind |-> "Err"]
  /\ UNCHANGED << root_id, depth, options, processed_items, total_items, task,
                  first_event, recent, probe_vars >>

\* what the worker entering fast_scan on the directory at p does first
FastEnter(p) == IF read_dir_ok(E(p)) THEN Task("files", 1, 0) ELSE Done

\* the counter is created, the total estimated, the initial report published
\* and the walk entered
ScanStart ==
  /\ phase = "idle"
  /\ Catalogue[root_id].status = "ok"
  /\ total_items' = estimate_item_count(E(<<>>), depth)
  /\ Publish(emit_progress(<<>>, processed_items, total_items'))
  /\ phase' = "walking"
  /\ task' = IF options.fast_mode THEN [task EXCEPT ![<<>>] = FastEnter(<<>>)] ELSE task
  /\ UNCHANGED << root_id, depth, options, processed_items, result, probe_vars >>

\* the walk has returned: the final report is published and the tree returned
ScanFinish ==
  /\ phase = "walking"
  /\ task[<<>>].pc = "done"
  /\ Publish(emit_progress(<<>>, final_report(processed_items, total_items), total_items))
  /\ result' = [kind |-> "Ok",
                item |-> IF options.fast_mode
                         THEN fast_scan(E(<<>>), <<>>, depth, options)
                         ELSE comprehensive_scan(E(<<>>), <<>>, depth, options)]
  /\ phase' = "done"
  /\ UNCHANGED << root_id, depth, options, processed_items, total_items, task,
                  probe_vars >>

\* what a walk step leaves alone
Fixed == << root_id, depth, options, phase, total_items, result, probe_vars >>

\* the counter is read and the increment never stored: a slip the code
\* does not make
lost_increment == processed_items

\* processed_items.fetch_add(1, Ordering::SeqCst) + 1
fetch_add == processed_items + 1

\* ------------------------------------------------------------- fast_scan
\* the file pass skips an entry: hidden and skipped, or not a file
FastFileSkip(p) ==
  /\ task[p].pc = "files"
  /\ task[p].i <= Len(E(p).entries)
  /\ LET c == E(p).entries[task[p].i]
     IN skip_entry(options, c) \/ c.kind # "file"
  /\ task' = [task EXCEPT ![p].i = @ + 1]
  /\ UNCHANGED << Fixed, processed_items, first_event, recent >>

\* the file pass charges a file to the counter
FastFileCharge(p) ==
  /\ task[p].pc = "files"
  /\ task[p].i <= Len(E(p).entries)
  /\ LET c == E(p).entries[task[p].i]
     IN ~skip_entry(options, c) /\ c.kind = "file"
  /\ processed_items' = fetch_add
  /\ task' = [task EXCEPT ![p] = Task("file_charged", @.i, fetch_add)]
  /\ UNCHANGED << Fixed, first_event, recent >>

\* ... and reports it when the throttle lets it
FastFileEmit(p) ==
  /\ task[p].pc = "file_charged"
  /\ PublishIf(emits_for_file(task[p].cur),
               emit_progress(Append(p, task[p].i), task[p].cur, total_items))
  /\ task' = [task EXCEPT ![p] = Task("files", @.i + 1, 0)]
  /\ UNCHANGED << Fixed, processed_items >>

\* the file pass is over: the subdirectories are handed to the parallel
\* iterator when depth remains, and walked in a plain loop at max depth
FastFilesDone(p) ==
  /\ task[p].pc = "files"
  /\ task[p].i > Len(E(p).entries)
  /\ task' = [task EXCEPT ![p] = IF DepthAt(p) > 0 THEN Task("par", 0, 0)
                                 ELSE Task("leaves", 1, 0)]
  /\ UNCHANGED << Fixed, processed_items, first_event, recent >>

\* a parallel worker takes the subdirectory at q and charges it
FastDirCharge(q) ==
  /\ q # <<>>
  /\ task[q].pc = "idle"
  /\ task[Parent(q)].pc = "par"
  /\ ~skip_entry(options, E(q))
  /\ processed_items' = fetch_add
  /\ task' = [task EXCEPT ![q] = Task("charged", 0, fetch_add)]
  /\ UNCHANGED << Fixed, first_event, recent >>

\* ... reports it when the throttle lets it, and either estimates it (a large
\* directory with depth to spare) or scans it with one level less
FastDirEmit(q) ==
  /\ task[q].pc = "charged"
  /\ PublishIf(emits_for_dir(task[q].cur), emit_progress(q, task[q].cur, total_items))
  /\ task' = [task EXCEPT ![q] =
                IF takes_estimate(options, E(q), DepthAt(Parent(q)))
                THEN Done ELSE FastEnter(q)]
  /\ UNCHANGED << Fixed, processed_items >>

\* every parallel worker of the directory at p has returned: the items are
\* collected, sorted and summed
FastJoin(p) ==
  /\ task[p].pc = "par"
  /\ \A i \in 1..Len(E(p).entries) :
       (E(p).entries[i].kind = "dir" /\ ~skip_entry(options, E(p).entries[i]))
         => task[Append(p, i)].pc = "done"
  /\ task' = [task EXCEPT ![p] = Done]
  /\ UNCHANGED << Fixed, processed_items, first_event, recent >>

\* at max depth the loop over the subdirectories skips a hidden one (the
\* entries that are no directories were filtered out before)
FastLeafSkip(p) ==
  /\ task[p].pc = "leaves"
  /\ task[p].i <= Len(E(p).entries)
  /\ LET c == E(p).entries[task[p].i]
     IN c.kind # "dir" \/ skip_entry(options, c)
  /\ task' = [task EXCEPT ![p].i = @ + 1]
  /\ UNCHANGED << Fixed, processed_items, first_event, recent >>

\* at max depth a subdirectory is charged
FastLeafCharge(p) ==
  /\ task[p].pc = "leaves"
  /\ task[p].i <= Len(E(p).entries)
  /\ LET c == E(p).entries[task[p].i]
     IN c.kind = "dir" /\ ~skip_entry(options, c)
  /\ processed_items' = fetch_add
  /\ task' = [task EXCEPT ![p] = Task("leaf_charged", @.i, fetch_add)]
  /\ UNCHANGED << Fixed, first_event, recent >>

\* ... reported when the throttle lets it, and added as an estimated leaf
FastLeafEmit(p) ==
  /\ task[p].pc = "leaf_charged"
  /\ PublishIf(emits_for_dir(task[p].cur),
               emit_progress(Append(p, task[p].i), task[p].cur, total_items))
  /\ task' = [task EXCEPT ![p] = Task("leaves", @.i + 1, 0)]
  /\ UNCHANGED << Fixed, processed_items >>

\* the loop is over: the items are sorted and summed
FastLeavesDone(p) ==
  /\ task[p].pc = "leaves"
  /\ task[p].i > Len(E(p).entries)
  /\ task' = [task EXCEPT ![p] = Done]
  /\ UNCHANGED << Fixed, processed_items, first_event, recent >>

\* ------------------------------------------------------ comprehensive_scan
\* the entries the walker yields for the directory at p (none for a file or
\* for a directory that cannot be listed)
walker_len(p) == IF read_dir_ok(E(p)) THEN Len(E(p).entries) ELSE 0

\* comprehensive_scan is entered for p (the root, or the subdirectory its
\* caller is recursing into) and charges the directory itself
CompSelfCharge(p) ==
  /\ phase = "walking"
  /\ ~options.fast_mode
  /\ task[p].pc = "idle"
  /\ \/ p = <<>>
     \/ p # <<>> /\ task[Parent(p)].pc = "call" /\ task[Parent(p)].i = Last(p)
  /\ processed_items' = fetch_add
  /\ task' = [task EXCEPT ![p] = Task("self_charged", 0, fetch_add)]
  /\ UNCHANGED << Fixed, first_event, recent >>

CompSelfEmit(p) ==
  /\ task[p].pc = "self_charged"
  /\ PublishIf(emits_for_entry(task[p].cur), emit_progress(p, task[p].cur, total_items))
  /\ task' = [task EXCEPT ![p] = Task("entries", 1, 0)]
  /\ UNCHANGED << Fixed, processed_items >>

\* a hidden entry is skipped
CompSkip(p) ==
  /\ task[p].pc = "entries"
  /\ task[p].i <= walker_len(p)
  /\ skip_entry(options, E(p).entries[task[p].i])
  /\ task' = [task EXCEPT ![p].i = @ + 1]
  /\ UNCHANGED << Fixed, processed_items, first_event, recent >>

\* an entry is sized and charged
CompEntryCharge(p) ==
  /\ task[p].pc = "entries"
  /\ task[p].i <= walker_len(p)
  /\ ~skip_entry(options, E(p).entries[task[p].i])
  /\ processed_items' = fetch_add
  /\ task' = [task EXCEPT ![p] = Task("entry_charged", @.i, fetch_add)]
  /\ UNCHANGED << Fixed, first_event, recent >>

\* ... reported when the throttle lets it; a subdirectory is then scanned
\* recursively when depth remains
CompEntryEmit(p) ==
  /\ task[p].pc = "entry_charged"
  /\ PublishIf(emits_for_entry(task[p].cur),
               emit_progress(Append(p, task[p].i), task[p].cur, total_items))
  /\ task' = [task EXCEPT ![p] =
                IF E(p).entries[@.i].kind = "dir" /\ DepthAt(p) > 0
                THEN Task("call", @.i, 0) ELSE Task("entries", @.i + 1, 0)]
  /\ UNCHANGED << Fixed, processed_items >>

\* the walker is exhausted: the children are sorted and summed and the item
\* returned to the caller, which pushes it and goes on with its next entry
CompReturn(p) ==
  /\ task[p].pc = "entries"
  /\ task[p].i > walker_len(p)
  /\ task' = [q \in DOMAIN task |->
                IF q = p THEN Done
                ELSE IF p # <<>> /\ q = Parent(p) THEN Task("entries", task[q].i + 1, 0)
                ELSE task[q]]
  /\ UNCHANGED << Fixed, processed_items, first_event, recent >>

\* ---------------------------------------------------------- specification
Next ==
  \/ ScanReject
  \/ ScanStart
  \/ ScanFinish
  \/ \E p \in DOMAIN task : FastFileSkip(p)
  \/ \E p \in DOMAIN task : FastFileCharge(p)
  \/ \E p \in DOMAIN task : FastFileEmit(p)
  \/ \E p \in DOMAIN task : FastFilesDone(p)
  \/ \E p \in DOMAIN task : FastDirCharge(p)
  \/ \E p \in DOMAIN task : FastDirEmit(p)
  \/ \E p \in DOMAIN task : FastJoin(p)
  \/ \E p \in DOMAIN task : FastLeafSkip(p)
  \/ \E p \in DOMAIN task : FastLeafCharge(p)
  \/ \E p \in DOMAIN task : FastLeafEmit(p)
  \/ \E p \in DOMAIN task : FastLeavesDone(p)
  \/ \E p \in DOMAIN task : CompSelfCharge(p)
  \/ \E p \in DOMAIN task : CompSelfEmit(p)
  \/ \E p \in DOMAIN task : CompSkip(p)
  \/ \E p \in DOMAIN task : CompEntryCharge(p)
  \/ \E p \in DOMAIN task : CompEntryEmit(p)
  \/ \E p \in DOMAIN task : CompReturn(p)

Spec == Init /\ [][Next]_vars

\* ---------------------------------------------------------- get_drive_info
\* what get_drive_info leaves alone
scan_vars == << root_id, depth, options, phase, processed_items, total_items,
               task, first_event, recent, result >>

\* the outputs df may print: the header, then up to MaxLines lines
RECURSIVE DfOutputs(_)
DfOutputs(n) ==
  IF n = 0 THEN { <<DfHeader>> }
  ELSE LET shorter == DfOutputs(n - 1)
       IN shorter \cup { Append(o, l) : o \in { s \in shorter : Len(s) = n }, l \in DfLines }

\* get_drive_info is called: on Unix df fails to run or prints some lines,
\* on Windows the letters C and D hold some volume and the others nothing
ProbeInit ==
  /\ root_id = 1
  /\ depth = 0
  /\ options = [fast_mode |-> TRUE, skip_hidden |-> TRUE]
  /\ ScanIdle
  /\ target_os \in {"unix", "windows"}
  /\ IF target_os = "unix"
     THEN /\ df \in {[ok |-> FALSE, lines |-> <<>>]}
                   \cup { [ok |-> TRUE, lines |-> o] : o \in DfOutputs(MaxLines) }
          /\ volumes = [k \in 1..Len(DriveLetters) |-> NoVolume]
     ELSE /\ df = [ok |-> FALSE, lines |-> <<>>]
          /\ \E c, d \in VolumeStates :
               volumes = [k \in 1..Len(DriveLetters) |->
                            IF k = 3 THEN c ELSE IF k = 4 THEN d ELSE NoVolume]
  /\ probe_pc = "start"
  /\ probe_i = 0
  /\ drives = <<>>
  /\ probe_result = [kind |-> "Pending"]

\* what a step of the probe leaves alone
ProbeFixed == << scan_vars, target_os, df, volumes >>

\* Command::new("df").arg("-k").output() fails: Err("Failed to execute df")
UnixDfFails ==
  /\ probe_pc = "start"
  /\ target_os = "unix"
  /\ ~df.ok
  /\ probe_pc' = "done"
  /\ probe_result' = [kind |-> "Err"]
  /\ UNCHANGED << ProbeFixed, probe_i, drives >>

\* df has run: the loop starts after the first line (lines().skip(1))
UnixDfRuns ==
  /\ probe_pc = "start"
  /\ target_os = "unix"
  /\ df.ok
  /\ probe_pc' = "lines"
  /\ probe_i' = 2
  /\ UNCHANGED << ProbeFixed, drives, probe_result >>

\* the fields of the line the loop is at
parts == split_whitespace(df.lines[probe_i])

\* a line of fewer than six fields is passed over
UnixLineShort ==
  /\ probe_pc = "lines"
  /\ probe_i <= Len(df.lines)
  /\ Len(parts) < 6
  /\ probe_i' = probe_i + 1
  /\ UNCHANGED << ProbeFixed, probe_pc, drives, probe_result >>

\* the metadata of the mount point cannot be read: nothing is pushed
UnixLineNoMetadata ==
  /\ probe_pc = "lines"
  /\ probe_i <= Len(df.lines)
  /\ Len(parts) >= 6
  /\ ~metadata_len(parts[6]).ok
  /\ probe_i' = probe_i + 1
  /\ UNCHANGED << ProbeFixed, probe_pc, drives, probe_result >>

\* a DriveInfo is pushed for the line
UnixLinePush ==
  /\ probe_pc = "lines"
  /\ probe_i <= Len(df.lines)
  /\ Len(parts) >= 6
  /\ metadata_len(parts[6]).ok
  /\ drives' = Append(drives, unix_drive(parts))
  /\ probe_i' = probe_i + 1
  /\ UNCHANGED << ProbeFixed, probe_pc, probe_result >>

\* the lines are exhausted: Ok(drives)
UnixReturn ==
  /\ probe_pc = "lines"
  /\ probe_i > Len(df.lines)
  /\ probe_pc' = "done"
  /\ probe_result' = [kind |-> "Ok", drives |-> drives]
  /\ UNCHANGED << ProbeFixed, probe_i, drives >>

\* get_windows_drives starts its loop at 'A'
WindowsStart ==
  /\ probe_pc = "start"
  /\ target_os = "windows"
  /\ probe_pc' = "letters"
  /\ probe_i' = 1
  /\ UNCHANGED << ProbeFixed, drives, probe_result >>

\* the letter holds nothing the probe lists: no such path, no metadata, a
\* file, a failed GetDiskFreeSpaceExW or zero total bytes
WindowsDriveSkip ==
  /\ probe_pc = "letters"
  /\ probe_i <= Len(DriveLetters)
  /\ ~windows_pushes(volumes[probe_i])
  /\ probe_i' = probe_i + 1
  /\ UNCHANGED << ProbeFixed, probe_pc, drives, probe_result >>

\* a DriveInfo is pushed for the letter
WindowsDrivePush ==
  /\ probe_pc = "letters"
  /\ probe_i <= Len(DriveLetters)
  /\ windows_pushes(volumes[probe_i])
  /\ drives' = Append(drives, windows_drive(probe_i, volumes[probe_i]))
  /\ probe_i' = probe_i + 1
  /\ UNCHANGED << ProbeFixed, probe_pc, probe_result >>

\* 'Z' is behind: Ok(drives)
WindowsReturn ==
  /\ probe_pc = "letters"
  /\ probe_i > Len(DriveLetters)
  /\ probe_pc' = "done"
  /\ probe_result' = [kind |-> "Ok", drives |-> drives]
  /\ UNCHANGED << ProbeFixed, probe_i, drives >>

ProbeNext ==
  \/ UnixDfFails
  \/ UnixDfRuns
  \/ UnixLineShort
  \/ UnixLineNoMetadata
  \/ UnixLinePush
  \/ UnixReturn
  \/ WindowsStart
  \/ WindowsDriveSkip
  \/ WindowsDrivePush
  \/ WindowsReturn

ProbeSpec == ProbeInit /\ [][ProbeNext]_vars

\* ------------------------------------------------- reading a returned tree
\* every DiskItem of the tree rooted at item n; an item's path is the path of
\* its entry, so Len(n.path) is its level below the root
RECURSIVE Items(_)
Items(n) == {n} \cup UNION { Items(n.children.vec[i]) : i \in 1..Len(n.children.vec) }

Returned == IF result.kind = "Ok" THEN Items(result.item) ELSE {}

Level(n) == Len(n.path)

LastEvent == recent[Len(recent)]

\* ----------------------------------------------------------------- claims

\* C1: within one scan, the scan-progress events in publication order have
\* non-decreasing processed_items (the initial and the final event included).
C1_ProgressMonotone ==
  Len(recent) = 2 => recent[1].processed_items <= recent[2].processed_items

RECURSIVE Flatten(_)
Flatten(ss) ==
  IF Len(ss) = 0 THEN <<>>
  ELSE IF Len(ss) = 1 THEN ss[1]
  ELSE LET h == Len(ss) \div 2
       IN Flatten(SubSeq(ss, 1, h)) \o Flatten(SubSeq(ss, h + 1, Len(ss)))

RECURSIVE FileLengths(_)
FileLengths(e) ==
  IF e.kind = "dir" THEN Flatten([i \in 1..Len(e.entries) |-> FileLengths(e.entries[i])])
  ELSE <<e.len>>

\* the exact recursive byte total of the subtree at entry e
TotalBytes(e) == SumSeq(FileLengths(e))

Sorted(v) == \A i \in 1..(Len(v) - 1) : v[i].size >= v[i + 1].size

C4_SortOrder ==
  \A n \in Returned : n.children.some => Sorted(n.children.vec)

\* a returned item has children of different sizes that enumeration order
\* alone would not have sorted, one of them the result of a recursive scan
C4_Witness ==
  \E n \in Returned :
    \E i, j \in 1..Len(n.children.vec) :
      /\ i < j
      /\ n.children.vec[i].size > n.children.vec[j].size
      /\ Last(n.children.vec[i].path) > Last(n.children.vec[j].path)
      /\ n.children.vec[i].children.vec # <<>>

\* C5 as stated: with skip_hidden no returned item, the root included, has a
\* name beginning with '.'.
C5_NoHiddenName ==
  options.skip_hidden => \A n \in Returned : ~starts_with_dot(n.name)

\* C5 as amended: with skip_hidden no returned item other than the root has a
\* name beginning with '.'.
C5_NoHiddenNameBelowRoot ==
  options.skip_hidden =>
    \A n \in Returned : n.path # <<>> => ~starts_with_dot(n.name)

\* a scan with skip_hidden returned items from directories that hold hidden
\* files and hidden subdirectories
C5_Witness ==
  /\ options.skip_hidden
  /\ \E n \in Returned :
       /\ n.children.vec # <<>>
       /\ \E i \in 1..Len(E(n.path).entries) :
            E(n.path).entries[i].kind = "dir" /\ starts_with_dot(E(n.path).entries[i].name)
  /\ \E n \in Returned :
       /\ n.children.vec # <<>>
       /\ \E i \in 1..Len(E(n.path).entries) :
            E(n.path).entries[i].kind = "file" /\ starts_with_dot(E(n.path).entries[i].name)

\* C6: a scan whose root is a regular file returns a file item: is_dir false,
\* children absent, size the file's length.
C6_FileRoot ==
  (result.kind = "Ok" /\ E(<<>>).kind = "file") =>
    /\ result.item.is_dir = FALSE
    /\ result.item.children = None
    /\ result.item.size = E(<<>>).len

\* the returned item is the leaf the size estimator stands for
EstimatedLeaf(n) ==
  n.children = Some(<<>>) /\ n.size = estimate_dir_size(E(n.path))

\* C7 as stated: in fast mode every large directory the scan reaches, the
\* root included and whatever depth remains, is returned with empty children
\* and a sampled size.
C7_LargeAlwaysEstimated ==
  options.fast_mode =>
    \A n \in Returned :
      (n.is_dir /\ is_large_directory(E(n.path))) => EstimatedLeaf(n)

\* C7 as amended: in fast mode every large directory below the root that is
\* reached with a remaining depth other than 1 is returned with empty
\* children and a sampled size (at remaining depth 1, and at the root, a
\* large directory is listed like any other).
C7_LargeEstimatedUnlessDepthOne ==
  options.fast_mode =>
    \A n \in Returned :
      (/\ n.is_dir
       /\ is_large_directory(E(n.path))
       /\ n.path # <<>>
       /\ DepthAt(Parent(n.path)) # 1) => EstimatedLeaf(n)

\* a fast scan reached a large directory with depth to spare and returned it
\* as a leaf whose size is the extrapolated sample
C7_Witness ==
  /\ options.fast_mode
  /\ \E n \in Returned :
       /\ n.is_dir /\ n.path # <<>> /\ is_large_directory(E(n.path))
       /\ DepthAt(Parent(n.path)) > 1
       /\ EstimatedLeaf(n)
       /\ n.size > 0

\* C8: in comprehensive mode the size reported for the root, and for any
\* directory present in the results of two depths, does not depend on the
\* requested depth.
C8_SizeIndependentOfDepth ==
  (result.kind = "Ok" /\ ~options.fast_mode) =>
    \A d \in 0..MaxDepth :
      \A n \in Returned :
        \A m \in Items(comprehensive_scan(E(<<>>), <<>>, d, options)) :
          (n.is_dir /\ m.is_dir /\ m.path = n.path) => m.size = n.size

\* C9: every published event has percent within [0, 100] (processed_items
\* never above total_items), and percent 0 when total_items is 0.
C9_PercentBounded ==
  \A k \in 1..Len(recent) :
    /\ recent[k].percent.num >= 0
    /\ recent[k].percent.num <= 100 * recent[k].percent.den
    /\ recent[k].processed_items <= recent[k].total_items
    /\ recent[k].total_items = 0 => recent[k].percent.num = 0

\* C10: a scan that returns an item has published an event with
\* processed_items = 0 before any walk event, and publishes the event with
\* processed_items = total_items last, when no worker has anything left to
\* publish; nothing is published by a scan that fails.
C10_InitialAndFinalReports ==
  /\ (phase = "idle" \/ phase = "failed") => (first_event = <<>> /\ processed_items = 0)
  /\ (phase = "walking" \/ phase = "done") =>
       (first_event # <<>> /\ first_event[1].processed_items = 0)
  /\ (result.kind = "Ok") = (phase = "done")
  /\ phase = "done" =>
       /\ LastEvent.processed_items = total_items
       /\ LastEvent.total_items = total_items
       /\ \A p \in DOMAIN task : task[p].pc \in {"idle", "done"}

\* a fast scan with two parallel workers under one directory has returned,
\* its counter short of the total, its throttled walk events all published
C10_Witness ==
  /\ phase = "done"
  /\ options.fast_mode
  /\ processed_items # total_items
  /\ processed_items > 0
  /\ \E p, q \in DOMAIN task :
       /\ p # <<>> /\ q # <<>> /\ p # q /\ Parent(p) = Parent(q)
       /\ task[p].pc = "done" /\ task[q].pc = "done"

\* C11: a scan whose root exists and canonicalizes but cannot be listed does
\* not return an item: once it is over, what it returned is an error.
C11_UnlistableRootFails ==
  (/\ Catalogue[root_id].status = "ok"
   /\ E(<<>>).kind = "dir"
   /\ ~read_dir_ok(E(<<>>))
   /\ phase \in {"done", "failed"})
    => result.kind = "Err"

\* C12: every DriveInfo the drive probe has pushed or returned, on the Unix
\* and on the Windows path, has used_space + available_space <= total_space.
C12_VolumeMath ==
  \A k \in 1..Len(drives) :
    drives[k].used_space + drives[k].available_space <= drives[k].total_space

\* a worker has charged an entry and has not yet passed the throttle
Charged(p) ==
  task[p].pc \in {"file_charged", "charged", "leaf_charged", "self_charged", "entry_charged"}

\* the entry it charged: the directory itself, or the entry its loop is at
ChargedEntry(p) ==
  IF task[p].pc \in {"charged", "self_charged"} THEN E(p) ELSE E(p).entries[task[p].i]

\* the throttle as stated: below 100, or a directory at a multiple of 20, or
\* a file at a multiple of 100
StatedThrottle(is_dir, c) ==
  \/ c < AlwaysEmitBelow
  \/ is_dir /\ c % DirEmitEvery = 0
  \/ ~is_dir /\ c % FileEmitEvery = 0

\* C13: for every entry charged, in fast and in comprehensive mode, with c
\* the counter value after charging it, the step that passes the throttle
\* publishes an event if and only if c < 100, or the entry is a directory
\* and c is a multiple of 20, or the entry is a file and c is a multiple of
\* 100.
C13_ThrottlePolicy ==
  [][\A p \in DOMAIN task :
       (Charged(p) /\ task'[p] # task[p]) =>
         ((recent' # recent) <=>
            StatedThrottle(ChargedEntry(p).kind = "dir", task[p].cur))]_vars

\* the same, of the fast mode alone
C13_FastThrottlePolicy ==
  [][\A p \in DOMAIN task :
       (options.fast_mode /\ Charged(p) /\ task'[p] # task[p]) =>
         ((recent' # recent) <=>
            StatedThrottle(ChargedEntry(p).kind = "dir", task[p].cur))]_vars

\* C14: in fast mode, when the walk has finished and the tree is returned,
\* processed_items equals the number of items of the tree other than the
\* root, whatever the interleaving of the parallel workers was.
C14_CounterCountsNodes ==
  (options.fast_mode /\ phase = "done") =>
    processed_items = Cardinality(Returned) - 1

\* a fast scan has returned a tree of files and of directories that two
\* parallel workers scanned, with a directory below one of them
C14_Witness ==
  /\ options.fast_mode
  /\ phase = "done"
  /\ processed_items >= 4
  /\ \E n \in Returned : Level(n) = 1 /\ ~n.is_dir
  /\ \E n \in Returned : Level(n) = 2 /\ n.is_dir
  /\ \E p, q \in DOMAIN task :
       /\ p # <<>> /\ q # <<>> /\ p # q /\ Parent(p) = Parent(q)
       /\ \E n, m \in Returned : n.path = p /\ m.path = q

====
